---- MODULE Spec2Model ----
(***************************************************************************)
(* Model of the agent orchestration runtime of advisor-ai-agent:           *)
(* the consent gate (app/models/consent.py), the tool dispatcher           *)
(* (app/agents/tool_executor.py), the audit recorder (app/core/audit.py),  *)
(* the model gateway (app/services/claude_service.py), the conversation    *)
(* engine (app/agents/agent.py), the callers of proactive_check            *)
(* (app/api/webhooks.py, app/tasks/agent_tasks.py), the writers of a task *)
(* row (update_task, PATCH /tasks/{id}/status, execute_task) and of the    *)
(* instructions table (save_instruction, DELETE /instructions/{id}), the   *)
(* audit sanitizer and the rate limiter (app/core/rate_limit.py).          *)
(***************************************************************************)
EXTENDS Integers, Sequences, FiniteSets, TLC

\* ------------------------------------------------------------------------
\* Bounds of the model
\* ------------------------------------------------------------------------
\* days the clock may reach (0..MaxDay)
MaxDay == 0
\* cap on UserConsent.use_count
MaxUse == 2
\* largest max_turns argument of chat_stream
MaxTurns == 2
\* longest tool_uses list of one model turn
MaxToolUses == 2
\* most ToolExecutor.execute calls in one behaviour
MaxExec == 2
\* number of concurrent check_consent calls
NumCheckers == 2
\* nesting depth of the data handed to _sanitize_data
MaxDepth == 2
\* the limit and the window (seconds) of the rate-limited endpoint, the
\* seconds the limiter's clock runs through, and the calls made
max_requests == 2
window_seconds == 2
MaxRateTime == 3
MaxRateCalls == 4

\* ------------------------------------------------------------------------
\* Time.  A datetime is the number of hours since the epoch; None is NoTime.
\* ------------------------------------------------------------------------
NoTime == -1
HoursPerDay == 24
\* the hours of a day at which the model observes the clock
Hours == {8, 12, 20}
Times == {d * HoursPerDay + h : d \in 0..MaxDay, h \in Hours}
HourOf(t) == t % HoursPerDay
DayOf(t) == t \div HoursPerDay

\* ------------------------------------------------------------------------
\* UserConsent rows, one per action_type of the (single) user
\* ------------------------------------------------------------------------
ActionTypes == {"send_email", "create_task"}

\* conditions JSON: None / {} is NoConditions; an absent key is -1
NoConditions == [max_per_day |-> -1, start |-> -1, end |-> -1]
MaxPerDayCond == [max_per_day |-> 1, start |-> -1, end |-> -1]
AllowedHoursCond == [max_per_day |-> -1, start |-> 9, end |-> 17]
ConditionChoices == {NoConditions, MaxPerDayCond, AllowedHoursCond}

\* no row in user_consents
NoRow == [exists |-> FALSE, is_granted |-> FALSE, conditions |-> NoConditions,
          revoked_at |-> NoTime, expires_at |-> NoTime,
          last_used_at |-> NoTime, use_count |-> 0]

\* is_valid without the expiry test
is_valid_NoExpiry(row, t) == row.is_granted /\ row.revoked_at = NoTime

\* UserConsent.is_valid
is_valid(row, t) ==
    IF ~row.is_granted THEN FALSE
    ELSE IF row.revoked_at # NoTime THEN FALSE
    ELSE IF row.expires_at # NoTime /\ row.expires_at < t THEN FALSE
    ELSE TRUE

\* UserConsent.check_conditions: max_per_day is read but not enforced
check_conditions(row, t) ==
    IF row.conditions = NoConditions THEN TRUE
    ELSE IF row.conditions.start # -1
            /\ (HourOf(t) < row.conditions.start \/ HourOf(t) > row.conditions.end)
         THEN FALSE
    ELSE TRUE

\* the row the query of check_consent selects: filtered on is_granted == True
GrantedRowFound(row) == row.exists /\ row.is_granted

\* outcome of ConsentManager.check_consent on a row read at time t
CheckOutcome(row, t) ==
    IF ~GrantedRowFound(row) THEN "no_consent"
    ELSE IF ~is_valid(row, t) THEN "invalid"
    ELSE IF ~check_conditions(row, t) THEN "conditions"
    ELSE "allowed"

\* ------------------------------------------------------------------------
\* State
\* ------------------------------------------------------------------------
VARIABLES
    now,        \* datetime.utcnow(), in hours
    consent,    \* user_consents: action_type -> row
    lastCheck,  \* the latest check_consent call: [action, outcome]
    audit,      \* audit_logs rows written by log_tool_execution, in order
    execCount,  \* number of ToolExecutor.execute calls made
    lastExec,   \* the latest ToolExecutor.execute call
    op,         \* the agent method running: chat_stream, chat, proactive_check
    pc,         \* where that method is suspended
    gateway,    \* the gateway behind claude_service: "claude" or "iface"
    max_turns,  \* chat_stream argument
    turn_count, \* loop counter of the method
    modelCalls, \* calls made to the gateway
    current_text,        \* text streamed in the current turn
    assistant_response,  \* chat_stream local
    pending,    \* tool_uses of this turn not dispatched yet
    tool_calls_made,     \* chat_stream local: [tool, result] per dispatch
    events,     \* events chat_stream has yielded, in order
    chat_messages,       \* chat_messages rows, in creation order
    retval,     \* what the method returned or yielded last
    messages,   \* the running message context handed to the gateway
    tool_results_content, \* tool_result entries of the current turn
    tool_uses,  \* tool_uses of the gateway's last response
    instructions,         \* instructions rows at the proactive_check query
    event_type, \* proactive_check argument
    caller,     \* the code that called the agent method
    task_status,          \* tasks.status of the user's task
    task_memory,          \* tasks.memory of the user's task
    completed_at,         \* tasks.completed_at of the user's task
    foreign_task,         \* the task row of another user
    cpc,        \* concurrent check_consent calls: start, read, done
    csnap,      \* the row each call's query loaded into its session
    cres,       \* what each call returned
    stale,      \* a revoke committed after the call's query
    startCount, \* use_count before the concurrent calls
    san_input,  \* the data handed to _sanitize_data
    san_output, \* what _sanitize_data returned
    rl_time,    \* the rate limiter's clock, in whole seconds
    rl_zset,    \* the sorted set of the rate limit key
    rl_calls    \* the check_rate_limit calls made: time, answer

consentVars == <<now, consent, lastCheck>>
taskVars == <<task_status, task_memory, completed_at, foreign_task>>
execVars == <<audit, execCount, lastExec, taskVars>>
ctxVars == <<messages, tool_results_content, tool_uses>>
proVars == <<instructions, event_type, caller>>
agentVars == <<op, pc, gateway, max_turns, turn_count, modelCalls, current_text,
               assistant_response, pending, tool_calls_made, events,
               chat_messages, retval, ctxVars, proVars>>
concVars == <<cpc, csnap, cres, stale, startCount>>
svcVars == <<san_input, san_output, rl_time, rl_zset, rl_calls>>
vars == <<consentVars, execVars, agentVars, concVars, svcVars>>

NoCheck == [action |-> "none", outcome |-> "none"]

NoResult == [success |-> FALSE, requires_consent |-> FALSE, action_type |-> "", error |-> ""]
NoExec == [tool |-> "none", task_id |-> "none", check |-> "none", handler |-> "none",
           result |-> NoResult, raised |-> FALSE, audit_failed |-> FALSE]

Procs == 1..NumCheckers

\* the sequential specifications run no concurrent calls
NoConcurrentCalls ==
    /\ cpc = [p \in Procs |-> "done"]
    /\ csnap = [p \in Procs |-> NoRow]
    /\ cres = [p \in Procs |-> "none"]
    /\ stale = [p \in Procs |-> FALSE]
    /\ startCount = 0

\* values handed to _sanitize_data: a scalar, a dict (a function from keys to values) or a list
Scalar(v) == [kind |-> "scalar", val |-> v, entries |-> <<>>, items |-> <<>>]
Dict(f) == [kind |-> "dict", val |-> "", entries |-> f, items |-> <<>>]
List(s) == [kind |-> "list", val |-> "", entries |-> <<>>, items |-> s]
NoData == [kind |-> "none", val |-> "", entries |-> <<>>, items |-> <<>>]

\* no sanitizer call and no rate limiter call has been made
ServicesIdle ==
    /\ san_input = NoData
    /\ san_output = NoData
    /\ rl_time = 0
    /\ rl_zset = {}
    /\ rl_calls = <<>>

\* no agent method has been called yet
AgentIdle ==
    /\ op = "none"
    /\ pc = "idle"
    /\ gateway = "none"
    /\ max_turns = 0
    /\ turn_count = 0
    /\ modelCalls = 0
    /\ current_text = <<>>
    /\ assistant_response = <<>>
    /\ pending = <<>>
    /\ tool_calls_made = <<>>
    /\ events = <<>>
    /\ chat_messages = <<>>
    /\ retval = <<"none">>
    /\ messages = <<>>
    /\ tool_results_content = <<>>
    /\ tool_uses = <<>>
    /\ instructions = {}
    /\ event_type = "none"
    /\ caller = "none"

\* ------------------------------------------------------------------------
\* ConsentManager
\* ------------------------------------------------------------------------
\* the row after the usage update of an allowed check, with a lost increment
UsedRow_NoIncrement(row, t) == [row EXCEPT !.last_used_at = t]

\* the usage update of an allowed check: last_used_at = utcnow(); use_count += 1
UsedRow(row, t) == [row EXCEPT !.last_used_at = t, !.use_count = row.use_count + 1]

\* grant_consent: update the existing row or create a new one
GrantedRow(row, conditions, expires_at) ==
    IF row.exists
    THEN [row EXCEPT !.is_granted = TRUE, !.conditions = conditions,
                     !.revoked_at = NoTime, !.expires_at = expires_at]
    ELSE [NoRow EXCEPT !.exists = TRUE, !.is_granted = TRUE,
                       !.conditions = conditions, !.expires_at = expires_at]

\* revoke_consent on an existing row
RevokedRow(row, t) == [row EXCEPT !.is_granted = FALSE, !.revoked_at = t]

\* ConsentManager.check_consent as one call: the consent table after it
ConsentAfterCheck(a) ==
    IF CheckOutcome(consent[a], now) = "allowed"
    THEN [consent EXCEPT ![a] = UsedRow(consent[a], now)]
    ELSE consent

\* use_count stays within the model's cap
CheckWithinCap(a) ==
    CheckOutcome(consent[a], now) = "allowed" => consent[a].use_count < MaxUse

\* a direct check_consent call (as test_security.py makes)
CheckConsent(a) ==
    /\ CheckWithinCap(a)
    /\ consent' = ConsentAfterCheck(a)
    /\ lastCheck' = [action |-> a, outcome |-> CheckOutcome(consent[a], now)]
    /\ UNCHANGED now

\* expires_at arguments of grant_consent: none, or noon of day 0
ExpiryChoices == {NoTime, 12}

GrantConsent(a, conditions, expires_at) ==
    /\ consent' = [consent EXCEPT ![a] = GrantedRow(consent[a], conditions, expires_at)]
    /\ lastCheck' = NoCheck
    /\ UNCHANGED now

RevokeConsent(a) ==
    /\ consent[a].exists
    /\ consent' = [consent EXCEPT ![a] = RevokedRow(consent[a], now)]
    /\ lastCheck' = NoCheck
    /\ UNCHANGED now

\* revoke_consent on a missing row returns False and changes nothing
RevokeMissing(a) ==
    /\ ~consent[a].exists
    /\ lastCheck' = NoCheck
    /\ UNCHANGED <<now, consent>>

\* the clock advances to the next observed instant
Tick ==
    /\ \E t \in Times : t > now /\ (\A u \in Times : ~(now < u /\ u < t)) /\ now' = t
    /\ lastCheck' = NoCheck
    /\ UNCHANGED consent

\* ------------------------------------------------------------------------
\* ToolExecutor and AuditLogger.log_tool_execution
\* ------------------------------------------------------------------------
\* ToolExecutor.execute: sensitive_tools
sensitive_tools == {"send_email", "create_calendar_event", "create_hubspot_contact",
                    "add_hubspot_note", "create_task"}

\* ToolExecutor._execute_tool: the names routed to a handler
RegisteredTools == {"search_knowledge_base", "search_emails", "send_email",
                    "check_availability", "create_calendar_event",
                    "search_calendar_events", "search_hubspot_contacts",
                    "create_hubspot_contact", "add_hubspot_note", "create_task",
                    "update_task", "save_instruction"}

\* the tool names the model's output carries in this model
ModelTools == {"send_email", "update_task", "wire_money"}

\* what a handler can do: return success, return a failure result, raise
HandlerOutcomes(tool) ==
    IF tool \notin RegisteredTools THEN {"not_routed"}
    ELSE IF tool = "update_task" THEN {"ok", "fail", "raise"}
    ELSE {"ok", "raise"}

\* a consent gate that lets every tool through
ConsultedCheck_Open(tool) == "allowed"

\* execute, lines 37-42: the consent check a tool is put through
ConsultedCheck(tool) ==
    IF tool \in sensitive_tools THEN CheckOutcome(consent[tool], now) ELSE "not_checked"

\* execute, line 44: the denial that short-circuits
Denied(tool) == ConsultedCheck(tool) \notin {"allowed", "not_checked"}

\* execute without its except clause
ExecuteRaises_NoCatch(tool, outcome) == ~Denied(tool) /\ outcome = "raise"

\* execute, lines 28 and 71: every exception of the body is caught
ExecuteRaises(tool, outcome) == FALSE

\* _execute_tool, lines 133-137, and the handlers' returned dictionaries
HandlerResult(tool, outcome) ==
    IF outcome = "ok"
    THEN [success |-> TRUE, requires_consent |-> FALSE, action_type |-> "", error |-> ""]
    ELSE IF outcome = "not_routed"
    THEN [success |-> FALSE, requires_consent |-> FALSE, action_type |-> "",
          error |-> "unknown_tool"]
    ELSE [success |-> FALSE, requires_consent |-> FALSE, action_type |-> "",
          error |-> "handler_failure"]

\* execute: the dictionary returned to the caller
ExecuteResult(tool, outcome) ==
    IF Denied(tool)
    THEN [success |-> FALSE, requires_consent |-> TRUE, action_type |-> tool,
          error |-> "consent_required"]
    ELSE IF outcome = "raise"
    THEN [success |-> FALSE, requires_consent |-> FALSE, action_type |-> "",
          error |-> "exception"]
    ELSE HandlerResult(tool, outcome)

\* execute, line 53: the handler runs unless the gate denied
HandlerInvoked(tool) == ~Denied(tool)

\* execute: the number of log_tool_execution calls (line 56 or line 75)
AuditCalls(tool, outcome) == IF Denied(tool) THEN 0 ELSE 1

\* an audit status that ignores the result
AuditStatus_AlwaysSuccess(tool, outcome) == "success"

\* execute, lines 63 and 82: the status handed to log_tool_execution
AuditStatus(tool, outcome) ==
    IF outcome # "raise" /\ HandlerResult(tool, outcome).success
    THEN "success" ELSE "failure"

\* log_tool_execution: the rows added; a failed commit adds none
AuditRows(tool, outcome, auditFails) ==
    IF AuditCalls(tool, outcome) = 0 \/ auditFails THEN <<>>
    ELSE <<[action |-> "tool_execution", tool |-> tool,
            status |-> AuditStatus(tool, outcome)]>>

\* TaskStatus
TaskStatuses == {"pending", "in_progress", "waiting", "completed", "failed"}

\* the task ids a request can name: the user's task, a task of another
\* user, an id with no row
TaskIds == {"own", "foreign", "missing"}
NoMemory == "none"

\* the input of update_task: task_id, status, memory (optional)
TaskInput(task_id, status, memory) ==
    [task_id |-> task_id, status |-> status, memory |-> memory]

\* TaskStatus[status.upper()]: the member a status string names, in any
\* letter case; any other string is a KeyError
StatusSpellings == TaskStatuses \cup {"COMPLETED"}
ParseStatus(status) ==
    IF status = "COMPLETED" THEN "completed" ELSE status

\* a lookup by id alone
UpdateTarget_AnyOwner(task_id) ==
    IF task_id \in {"own", "foreign"} THEN task_id ELSE "none"

\* _update_task, lines 402-405: the row with this id and the caller's user_id
UpdateTarget(task_id) == IF task_id = "own" THEN "own" ELSE "none"

\* _update_task: what the handler can do with an input: "Task not found",
\* a KeyError for a status that names no member, else success (or an
\* exception of the commit)
UpdateTaskOutcomes(input) ==
    IF UpdateTarget(input.task_id) = "none" THEN {"fail"}
    ELSE IF input.status \notin StatusSpellings THEN {"raise"}
    ELSE {"ok", "raise"}

\* the handler of this call wrote the task row
TaskWritten(tool, outcome, input, target) ==
    /\ tool = "update_task" /\ HandlerInvoked(tool) /\ outcome = "ok"
    /\ UpdateTarget(input.task_id) = target

\* _update_task, line 413: the handler sets the status it was given
UpdatedStatus(tool, outcome, input) ==
    IF TaskWritten(tool, outcome, input, "own")
    THEN ParseStatus(input.status) ELSE task_status

\* _update_task, lines 414-415: memory is replaced when one is given
UpdatedMemory(old, input) ==
    IF input.memory # NoMemory THEN input.memory ELSE old

\* _update_task, lines 417-418: completed_at is stamped when the status
\* string is "completed"
UpdatedCompletedAt(old, input, t) ==
    IF input.status = "completed" THEN t ELSE old

\* the row of another user's task, were the handler to write it
UpdatedRow(row, input, t) ==
    [status |-> ParseStatus(input.status),
     memory |-> UpdatedMemory(row.memory, input),
     completed_at |-> UpdatedCompletedAt(row.completed_at, input, t)]

\* an execute whose audit failure reaches the caller
AuditRaises_NoCatch(tool, outcome, auditFails) ==
    AuditCalls(tool, outcome) > 0 /\ outcome # "raise" /\ auditFails

\* log_tool_execution, lines 89 and 133-135: the body is one try block
\* whose except clause only logs
AuditRaises(tool, outcome, auditFails) == FALSE

\* execute: what the caller gets back; an exception of the audit call on
\* line 56 would be caught on line 71 like one of the handler
ReturnedResult(tool, outcome, auditFails) ==
    IF AuditRaises(tool, outcome, auditFails)
    THEN ExecuteResult(tool, "raise")
    ELSE ExecuteResult(tool, outcome)

\* one ToolExecutor.execute call, from entry to return
Execute(tool, outcome, auditFails, input) ==
    /\ tool = "update_task" /\ HandlerInvoked(tool) => outcome \in UpdateTaskOutcomes(input)
    /\ task_status' = UpdatedStatus(tool, outcome, input)
    /\ task_memory' = IF TaskWritten(tool, outcome, input, "own")
                      THEN UpdatedMemory(task_memory, input) ELSE task_memory
    /\ completed_at' = IF TaskWritten(tool, outcome, input, "own")
                       THEN UpdatedCompletedAt(completed_at, input, now) ELSE completed_at
    /\ foreign_task' = IF TaskWritten(tool, outcome, input, "foreign")
                       THEN UpdatedRow(foreign_task, input, now) ELSE foreign_task
    /\ consent' = IF tool \in sensitive_tools THEN ConsentAfterCheck(tool) ELSE consent
    /\ lastCheck' = IF tool \in sensitive_tools
                    THEN [action |-> tool, outcome |-> ConsultedCheck(tool)]
                    ELSE NoCheck
    /\ audit' = audit \o AuditRows(tool, outcome, auditFails)
    /\ execCount' = execCount + 1
    /\ lastExec' = [tool |-> tool,
                    task_id |-> IF tool = "update_task" THEN input.task_id ELSE "none",
                    check |-> ConsultedCheck(tool),
                    handler |-> IF HandlerInvoked(tool) THEN outcome ELSE "not_invoked",
                    result |-> ReturnedResult(tool, outcome, auditFails),
                    raised |-> ExecuteRaises(tool, outcome),
                    audit_failed |-> (AuditCalls(tool, outcome) > 0 /\ auditFails)]
    /\ UNCHANGED <<now, concVars, svcVars>>

\* a task as create_task leaves it (status PENDING, nothing else set), and
\* a task of another user
TaskCreated ==
    /\ task_status = "pending"
    /\ task_memory = NoMemory
    /\ completed_at = NoTime
    /\ foreign_task = [status |-> "pending", memory |-> NoMemory, completed_at |-> NoTime]

InitConsent ==
    /\ now = 8
    /\ consent = [a \in ActionTypes |-> NoRow]
    /\ lastCheck = NoCheck
    /\ audit = <<>>
    /\ execCount = 0
    /\ lastExec = NoExec
    /\ TaskCreated
    /\ AgentIdle
    /\ NoConcurrentCalls
    /\ ServicesIdle

NextConsent ==
    \/ \E a \in ActionTypes : CheckConsent(a) /\ UNCHANGED <<execVars, agentVars, concVars, svcVars>>
    \/ \E a \in ActionTypes, c \in ConditionChoices, e \in ExpiryChoices :
          GrantConsent(a, c, e) /\ UNCHANGED <<execVars, agentVars, concVars, svcVars>>
    \/ \E a \in ActionTypes : RevokeConsent(a) /\ UNCHANGED <<execVars, agentVars, concVars, svcVars>>
    \/ \E a \in ActionTypes : RevokeMissing(a) /\ UNCHANGED <<execVars, agentVars, concVars, svcVars>>
    \/ Tick /\ UNCHANGED <<execVars, agentVars, concVars, svcVars>>

SpecConsent == InitConsent /\ [][NextConsent]_vars

\* ------------------------------------------------------------------------
\* FinancialAdvisorAgent.chat_stream over the gateway's event stream
\* ------------------------------------------------------------------------
\* message texts: a text is the sequence of its chunks, "" is <<>>
UserMessage == <<"user message">>
TaskCompleted == <<"Task completed.">>
GenericCompletion == <<"I've completed the requested actions.">>
Chunk(turn) == <<"text of turn 1", "text of turn 2", "text of turn 3",
                 "text of turn 4", "text of turn 5">>[turn]

Gateways == {"claude", "iface"}
\* ClaudeService.chat_stream reports end_turn on every completed turn
StopReasons(gw) == IF gw = "claude" THEN {"end_turn"} ELSE {"end_turn", "tool_use", "max_tokens"}

\* tool_uses lists of a done event
RECURSIVE ToolUseLists(_)
ToolUseLists(n) ==
    IF n = 0 THEN {<<>>}
    ELSE ToolUseLists(n - 1) \cup
         {Append(l, t) : l \in {x \in ToolUseLists(n - 1) : Len(x) = n - 1}, t \in ModelTools}

\* an event yielded to the caller of chat_stream
Event(type, tool_name) == [type |-> type, tool_name |-> tool_name]

\* entries of the running message context
UserEntry(text) ==
    [role |-> "user", text |-> text, tool_uses |-> <<>>, tool_results |-> <<>>]
AssistantEntry(text, uses) ==
    [role |-> "assistant", text |-> text, tool_uses |-> uses, tool_results |-> <<>>]
ToolResultsEntry(results) ==
    [role |-> "user", text |-> <<>>, tool_uses |-> <<>>, tool_results |-> results]

AssistantMessage(content) ==
    [role |-> "assistant", content |-> content, tool_calls |-> tool_calls_made]

\* a dispatch loop that takes the last requested tool first
NextToolUse_Last(uses) == uses[Len(uses)]

\* "for tool_use in tool_uses": the element the loop takes next, and the rest
NextToolUse(uses) == Head(uses)
RestToolUses(uses) == Tail(uses)

\* the code after the loop without its final yield
PostLoop_Silent(msgs, evs) ==
    /\ chat_messages' = msgs
    /\ events' = evs
    /\ retval' = TaskCompleted
    /\ pc' = "finished"
    /\ UNCHANGED <<turn_count, modelCalls, current_text, tool_uses>>

\* chat_stream, lines 191-205: after the loop
PostLoop(msgs, evs) ==
    /\ chat_messages' = IF assistant_response # <<>>
                        THEN Append(msgs, AssistantMessage(
                                 IF assistant_response # <<>> THEN assistant_response
                                 ELSE GenericCompletion))
                        ELSE msgs
    /\ events' = Append(evs, Event("done", ""))
    /\ retval' = IF assistant_response # <<>> THEN assistant_response ELSE TaskCompleted
    /\ pc' = "finished"
    /\ UNCHANGED <<turn_count, modelCalls, current_text, tool_uses>>

\* chat_stream, lines 72-85: the loop test and the next gateway call
LoopHead(mt, msgs, evs) ==
    IF turn_count < mt
    THEN /\ turn_count' = turn_count + 1
         /\ modelCalls' = modelCalls + 1
         /\ current_text' = <<>>
         /\ tool_uses' = <<>>
         /\ pc' = "stream"
         /\ events' = evs
         /\ chat_messages' = msgs
         /\ UNCHANGED retval
    ELSE PostLoop(msgs, evs)

\* a chat_stream that sends the message to the model before saving it
UserMessageSaved_Late(msgs) == msgs

\* chat_stream, lines 40-48: the user's ChatMessage, committed
UserMessageSaved(msgs) ==
    Append(msgs, [role |-> "user", content |-> UserMessage, tool_calls |-> <<>>])

\* _build_messages, line 363: limit(20)
HistoryLimit == 20

\* lines 361-365: the rows of the store, newest HistoryLimit, oldest first
RecentMessages(store) ==
    IF Len(store) <= HistoryLimit THEN store
    ELSE SubSeq(store, Len(store) - HistoryLimit + 1, Len(store))

\* lines 373-376: the entry a ChatMessage row becomes
MessageEntry(row) ==
    [role |-> row.role, text |-> row.content, tool_uses |-> <<>>, tool_results |-> <<>>]

\* lines 367-378: every row but the system-role ones, in order
RECURSIVE EntriesOf(_)
EntriesOf(rows) ==
    IF rows = <<>> THEN <<>>
    ELSE IF Head(rows).role = "system" THEN EntriesOf(Tail(rows))
    ELSE <<MessageEntry(Head(rows))>> \o EntriesOf(Tail(rows))

\* _build_messages: "if not conversation_history" loads the store
BuildMessages(conversation_history, store) ==
    IF conversation_history = <<>> THEN EntriesOf(RecentMessages(store))
    ELSE EntriesOf(conversation_history)

\* api/chat.py line 84: chat_stream is called without conversation_history
NoHistory == <<>>

\* chat_stream, lines 40-65: persist the user message, build the context
\* from the history and append the user message
StartChatStream(gw, mt, conversation_history) ==
    /\ pc = "idle"
    /\ op' = "chat_stream"
    /\ gateway' = gw
    /\ max_turns' = mt
    /\ chat_messages' = UserMessageSaved(chat_messages)
    /\ messages' = Append(BuildMessages(conversation_history, chat_messages'),
                          UserEntry(UserMessage))
    /\ caller' = "send_message"
    /\ pc' = "saved"
    /\ UNCHANGED <<turn_count, modelCalls, current_text, assistant_response, pending,
                   tool_calls_made, events, retval, tool_results_content, tool_uses,
                   instructions, event_type>>
    /\ UNCHANGED <<consentVars, execVars, concVars, svcVars>>

\* lines 67-85: enter the loop
EnterLoopStream ==
    /\ op = "chat_stream" /\ pc = "saved"
    /\ LoopHead(max_turns, chat_messages, events)
    /\ UNCHANGED <<op, gateway, max_turns, assistant_response, pending, tool_calls_made,
                   messages, tool_results_content, proVars>>
    /\ UNCHANGED <<consentVars, execVars, concVars, svcVars>>

\* lines 88-95: a content event is forwarded
GatewayContent ==
    /\ op = "chat_stream" /\ pc = "stream"
    /\ current_text = <<>>
    /\ IF events = <<>> THEN TRUE ELSE events[Len(events)].type # "tool_use_start"
    /\ current_text' = Append(current_text, Chunk(turn_count))
    /\ events' = Append(events, Event("content", ""))
    /\ UNCHANGED <<op, pc, gateway, max_turns, turn_count, modelCalls, assistant_response,
                   pending, tool_calls_made, chat_messages, retval, ctxVars, proVars>>
    /\ UNCHANGED <<consentVars, execVars, concVars, svcVars>>

\* lines 97-103: a tool_use_start event is forwarded
GatewayToolUseStart ==
    /\ op = "chat_stream" /\ pc = "stream"
    /\ gateway = "iface"
    /\ IF events = <<>> THEN TRUE ELSE events[Len(events)].type # "tool_use_start"
    /\ events' = Append(events, Event("tool_use_start", ""))
    /\ UNCHANGED <<op, pc, gateway, max_turns, turn_count, modelCalls, current_text,
                   assistant_response, pending, tool_calls_made, chat_messages, retval,
                   ctxVars, proVars>>
    /\ UNCHANGED <<consentVars, execVars, concVars, svcVars>>

\* a loop that looks at the tool uses only
NaturalStop_ToolUsesOnly(uses, stop_reason) == uses = <<>>

\* line 110: the turn that ends the conversation
NaturalStop(uses, stop_reason) == uses = <<>> \/ stop_reason = "end_turn"

\* lines 105-149: the done event of the gateway
GatewayDone(uses, stop_reason) ==
    /\ op = "chat_stream" /\ pc = "stream"
    /\ stop_reason \in StopReasons(gateway)
    /\ Len(uses) <= MaxExec - execCount
    /\ IF NaturalStop(uses, stop_reason)
       THEN /\ assistant_response' = current_text
            /\ chat_messages' = Append(chat_messages, AssistantMessage(current_text))
            /\ events' = Append(events, Event("done", ""))
            /\ retval' = current_text
            /\ pc' = "finished"
            /\ tool_uses' = uses
            /\ UNCHANGED <<pending, messages, tool_results_content>>
       ELSE /\ pending' = uses
            /\ tool_uses' = uses
            /\ messages' = Append(messages, AssistantEntry(current_text, uses))
            /\ tool_results_content' = <<>>
            /\ pc' = "tools"
            /\ UNCHANGED <<assistant_response, chat_messages, events, retval>>
    /\ UNCHANGED <<op, gateway, max_turns, turn_count, modelCalls, current_text,
                   tool_calls_made, proVars>>
    /\ UNCHANGED <<consentVars, execVars, concVars, svcVars>>

\* lines 86-131: an error event matches no branch; the stream ends with
\* tool_uses empty, the loop breaks and the code after the loop runs
OnGatewayError(msgs, evs) == PostLoop(msgs, evs)

\* claude_service.py lines 60-62: the gateway reports a failure and ends
GatewayError ==
    /\ op = "chat_stream" /\ pc = "stream"
    /\ OnGatewayError(chat_messages, events)
    /\ UNCHANGED <<op, gateway, max_turns, assistant_response, pending, tool_calls_made,
                   messages, tool_results_content, proVars>>
    /\ UNCHANGED <<consentVars, execVars, concVars, svcVars>>

\* lines 162-174: what one dispatch leaves in tool_results_content
ToolResult(tool, result) == [tool |-> tool, content |-> result]

\* lines 154-181: dispatch the next requested tool and yield its result
DispatchToolStream(outcome, input) ==
    /\ op = "chat_stream" /\ pc = "tools"
    /\ pending # <<>>
    /\ outcome \in HandlerOutcomes(NextToolUse(pending))
    /\ Execute(NextToolUse(pending), outcome, FALSE, input)
    /\ IF ExecuteRaises(NextToolUse(pending), outcome)
       THEN /\ pc' = "raised"
            /\ UNCHANGED <<pending, tool_calls_made, events, tool_results_content>>
       ELSE /\ pending' = RestToolUses(pending)
            /\ tool_calls_made' = Append(tool_calls_made,
                  [tool |-> NextToolUse(pending),
                   result |-> ExecuteResult(NextToolUse(pending), outcome)])
            /\ tool_results_content' = Append(tool_results_content,
                  ToolResult(NextToolUse(pending),
                             ExecuteResult(NextToolUse(pending), outcome)))
            /\ events' = Append(events, Event("tool_result", NextToolUse(pending)))
            /\ UNCHANGED pc
    /\ UNCHANGED <<op, gateway, max_turns, turn_count, modelCalls, current_text,
                   assistant_response, chat_messages, retval, messages, tool_uses,
                   proVars>>

\* lines 183-189 and 72: all tools of the turn dispatched, next iteration
AfterToolsStream ==
    /\ op = "chat_stream" /\ pc = "tools"
    /\ pending = <<>>
    /\ messages' = Append(messages, ToolResultsEntry(tool_results_content))
    /\ LoopHead(max_turns, chat_messages, events)
    /\ UNCHANGED <<op, gateway, max_turns, assistant_response, pending, tool_calls_made,
                   tool_results_content, proVars>>
    /\ UNCHANGED <<consentVars, execVars, concVars, svcVars>>

\* ------------------------------------------------------------------------
\* FinancialAdvisorAgent.chat (non-streaming)
\* ------------------------------------------------------------------------
\* chat, line 223
ChatMaxTurns == 10

\* texts of a non-streaming response of the given turn
ResponseTexts(turn) == IF turn = 0 THEN {<<>>} ELSE {<<>>, <<Chunk(turn)>>}

\* chat, lines 210-232: build the prompt and make the first gateway call
EnterChat(c) ==
    /\ pc = "idle"
    /\ op' = "chat"
    /\ gateway' = "claude"
    /\ max_turns' = ChatMaxTurns
    /\ turn_count' = 1
    /\ modelCalls' = modelCalls + 1
    /\ messages' = <<UserEntry(UserMessage)>>
    /\ caller' = c
    /\ pc' = "call"
    /\ UNCHANGED <<current_text, assistant_response, pending, tool_calls_made, events,
                   chat_messages, retval, tool_results_content, tool_uses,
                   instructions, event_type>>

\* chat called on its own
StartChat ==
    /\ EnterChat("none")
    /\ UNCHANGED <<consentVars, execVars, concVars, svcVars>>

\* chat, lines 225-232 and 277: the loop test after a turn's tools
ChatLoop ==
    IF turn_count < max_turns
    THEN /\ turn_count' = turn_count + 1
         /\ modelCalls' = modelCalls + 1
         /\ pc' = "call"
         /\ UNCHANGED retval
    ELSE /\ retval' = TaskCompleted
         /\ pc' = "finished"
         /\ UNCHANGED <<turn_count, modelCalls>>

\* chat, line 237: the response that ends the conversation
ChatStops(uses) == uses = <<>>

\* chat, lines 234-254: the gateway's response
ChatResponse(text, uses) ==
    /\ op = "chat" /\ pc = "call"
    /\ Len(uses) <= MaxExec - execCount
    /\ current_text' = text
    /\ IF ChatStops(uses)
       THEN /\ retval' = text
            /\ pc' = "finished"
            /\ UNCHANGED <<pending, messages, tool_results_content, tool_uses>>
       ELSE /\ pending' = uses
            /\ tool_uses' = uses
            /\ messages' = Append(messages, AssistantEntry(text, uses))
            /\ tool_results_content' = <<>>
            /\ pc' = "tools"
            /\ UNCHANGED retval
    /\ UNCHANGED <<op, gateway, max_turns, turn_count, modelCalls, assistant_response,
                   tool_calls_made, events, chat_messages, proVars>>
    /\ UNCHANGED <<consentVars, execVars, concVars, svcVars>>

\* claude_service.py lines 104-106: chat re-raises a gateway failure, and
\* neither chat nor proactive_check catches it
GatewayRaises ==
    /\ op \in {"chat", "proactive_check"} /\ pc = "call"
    /\ pc' = "raised"
    /\ UNCHANGED <<op, gateway, max_turns, turn_count, modelCalls, current_text,
                   assistant_response, pending, tool_calls_made, events, chat_messages,
                   retval, ctxVars, proVars>>
    /\ UNCHANGED <<consentVars, execVars, concVars, svcVars>>

\* chat, lines 259-275: dispatch the next tool; after the last, loop
DispatchToolChat(outcome, input) ==
    /\ op = "chat" /\ pc = "tools"
    /\ pending # <<>>
    /\ outcome \in HandlerOutcomes(NextToolUse(pending))
    /\ Execute(NextToolUse(pending), outcome, FALSE, input)
    /\ IF ExecuteRaises(NextToolUse(pending), outcome)
       THEN /\ pc' = "raised"
            /\ UNCHANGED <<pending, turn_count, modelCalls, retval, messages,
                           tool_results_content>>
       ELSE /\ pending' = RestToolUses(pending)
            /\ tool_results_content' = Append(tool_results_content,
                  ToolResult(NextToolUse(pending),
                             ExecuteResult(NextToolUse(pending), outcome)))
            /\ IF RestToolUses(pending) = <<>>
               THEN /\ messages' = Append(messages,
                                          ToolResultsEntry(tool_results_content'))
                    /\ ChatLoop
               ELSE UNCHANGED <<pc, turn_count, modelCalls, retval, messages>>
    /\ UNCHANGED <<op, gateway, max_turns, current_text, assistant_response,
                   tool_calls_made, events, chat_messages, tool_uses, proVars>>

\* ------------------------------------------------------------------------
\* FinancialAdvisorAgent.proactive_check and its callers
\* ------------------------------------------------------------------------
\* line 315: "NO_ACTION" in response["text"]
ContainsNoAction(text) == \E i \in DOMAIN text : text[i] = "NO_ACTION"

ProactiveTexts == {<<>>, <<Chunk(1)>>, <<"NO_ACTION">>, <<Chunk(1), "NO_ACTION">>}

\* the code that calls proactive_check, and the event type each passes
WebhookHandlers == {"gmail_webhook", "hubspot_webhook"}
CeleryTasks == {"process_webhook", "process_email", "process_calendar_event"}
Callers == WebhookHandlers \cup CeleryTasks
EventTypes == {"email", "hubspot_contact", "email_received", "calendar_event"}
CallerEventTypes(c) ==
    IF c = "gmail_webhook" THEN {"email"}
    ELSE IF c = "hubspot_webhook" THEN {"hubspot_contact"}
    ELSE IF c = "process_email" THEN {"email_received"}
    ELSE IF c = "process_calendar_event" THEN {"calendar_event"}
    ELSE {"email"}

\* instructions rows: the owner, is_active, trigger_type
Instruction(user, is_active, trigger_type) ==
    [user |-> user, is_active |-> is_active, trigger_type |-> trigger_type]
InstructionRows ==
    {Instruction("self", FALSE, "email"), Instruction("other", TRUE, "email"),
     Instruction("self", TRUE, "always"), Instruction("self", TRUE, "calendar_event")}
InstructionTables == SUBSET InstructionRows

\* a query that forgets the is_active filter
MatchingInstructions_Inactive(rows, et) ==
    {i \in rows : i.user = "self" /\ i.trigger_type \in {et, "always"}}

\* lines 288-292: the instructions query
MatchingInstructions(rows, et) ==
    {i \in rows : i.user = "self" /\ i.is_active /\ i.trigger_type \in {et, "always"}}

\* a proactive_check that answers True without writing its message
ProactiveActed_NoMessage(text) ==
    /\ chat_messages' = chat_messages
    /\ retval' = <<"True">>
    /\ pc' = "finished"

\* lines 328-337: the system message, and True
ProactiveActed(text) ==
    /\ chat_messages' = Append(chat_messages,
           [role |-> "system", content |-> <<"[Proactive]">> \o text, tool_calls |-> <<>>])
    /\ retval' = <<"True">>
    /\ pc' = "finished"

\* lines 287-312: load the matching instructions; none: return False
StartProactive(c, et, rows) ==
    /\ pc = "idle"
    /\ et \in CallerEventTypes(c)
    /\ op' = "proactive_check"
    /\ gateway' = "claude"
    /\ caller' = c
    /\ event_type' = et
    /\ instructions' = rows
    /\ IF MatchingInstructions(rows, et) # {}
       THEN /\ modelCalls' = modelCalls + 1
            /\ pc' = "call"
            /\ UNCHANGED retval
       ELSE /\ retval' = <<"False">>
            /\ pc' = "finished"
            /\ UNCHANGED modelCalls
    /\ UNCHANGED <<max_turns, turn_count, current_text, assistant_response, pending,
                   tool_calls_made, events, chat_messages, ctxVars>>
    /\ UNCHANGED <<consentVars, execVars, concVars, svcVars>>

\* lines 314-337: the gateway's answer
ProactiveResponse(text, uses) ==
    /\ op = "proactive_check" /\ pc = "call"
    /\ Len(uses) <= MaxExec - execCount
    /\ current_text' = text
    /\ tool_uses' = uses
    /\ IF ContainsNoAction(text)
       THEN /\ retval' = <<"False">>
            /\ pc' = "finished"
            /\ UNCHANGED <<pending, chat_messages>>
       ELSE IF uses = <<>>
       THEN /\ ProactiveActed(text)
            /\ UNCHANGED pending
       ELSE /\ pending' = uses
            /\ pc' = "tools"
            /\ UNCHANGED <<retval, chat_messages>>
    /\ UNCHANGED <<op, gateway, max_turns, turn_count, modelCalls, assistant_response,
                   tool_calls_made, events, messages, tool_results_content, proVars>>
    /\ UNCHANGED <<consentVars, execVars, concVars, svcVars>>

\* lines 322-337: dispatch the next tool; after the last, record and return
DispatchToolProactive(outcome, input) ==
    /\ op = "proactive_check" /\ pc = "tools"
    /\ pending # <<>>
    /\ outcome \in HandlerOutcomes(NextToolUse(pending))
    /\ Execute(NextToolUse(pending), outcome, FALSE, input)
    /\ IF ExecuteRaises(NextToolUse(pending), outcome)
       THEN /\ pc' = "raised"
            /\ UNCHANGED <<pending, chat_messages, retval>>
       ELSE /\ pending' = RestToolUses(pending)
            /\ IF RestToolUses(pending) = <<>> THEN ProactiveActed(current_text)
               ELSE UNCHANGED <<pc, chat_messages, retval>>
    /\ UNCHANGED <<op, gateway, max_turns, turn_count, modelCalls, current_text,
                   assistant_response, tool_calls_made, events, ctxVars, proVars>>

\* log_proactive_action: the row it adds
ProactiveAuditRow == [action |-> "proactive_action", tool |-> "", status |-> "success"]

\* the caller after proactive_check returned: the webhook handlers
\* (webhooks.py lines 131-140 and 349-358) log the action when it was
\* taken; the Celery tasks (agent_tasks.py lines 28-30, 123-125, 145-147)
\* return action_taken as it is
CallerAudit(c, action_taken) ==
    IF c \in WebhookHandlers /\ action_taken THEN <<ProactiveAuditRow>> ELSE <<>>

ProactiveReturns ==
    /\ op = "proactive_check" /\ pc = "finished"
    /\ audit' = audit \o CallerAudit(caller, retval = <<"True">>)
    /\ pc' = "returned"
    /\ UNCHANGED <<op, gateway, max_turns, turn_count, modelCalls, current_text,
                   assistant_response, pending, tool_calls_made, events, chat_messages,
                   retval, ctxVars, proVars>>
    /\ UNCHANGED <<consentVars, execCount, lastExec, taskVars, concVars, svcVars>>

\* the consent rows the tools of this model consult
ConsultedActions == ModelTools \cap sensitive_tools

\* the user's consent requests (POST /consent/grant with the default scope
\* and no conditions, POST /consent/revoke) while the agent is suspended:
\* before the method is called and between the tool dispatches of a turn
Environment ==
    /\ pc \in {"idle", "tools"}
    /\ \/ \E a \in ConsultedActions : GrantConsent(a, NoConditions, NoTime)
       \/ \E a \in ConsultedActions : RevokeConsent(a)
    /\ UNCHANGED <<execVars, agentVars, concVars, svcVars>>

\* the status the model gives update_task, and the proactive_check calls,
\* in the conversation engine's specification
EngineTaskInputs == {TaskInput("own", "in_progress", NoMemory),
                     TaskInput("missing", "in_progress", NoMemory)}
EngineCallers == {"gmail_webhook"}
EngineInstructionTables == {{}, {Instruction("self", TRUE, "always")}}

Init == InitConsent

Next ==
    \/ Environment
    \/ \E gw \in Gateways, mt \in 0..MaxTurns : StartChatStream(gw, mt, NoHistory)
    \/ EnterLoopStream
    \/ GatewayContent
    \/ GatewayToolUseStart
    \/ \E l \in ToolUseLists(MaxToolUses), sr \in StopReasons("iface") : GatewayDone(l, sr)
    \/ GatewayError
    \/ \E o \in {"ok", "fail", "raise", "not_routed"}, s \in EngineTaskInputs :
          DispatchToolStream(o, s)
    \/ AfterToolsStream
    \/ StartChat
    \/ \E t \in ResponseTexts(turn_count), l \in ToolUseLists(MaxToolUses) : ChatResponse(t, l)
    \/ GatewayRaises
    \/ \E o \in {"ok", "fail", "raise", "not_routed"}, s \in EngineTaskInputs :
          DispatchToolChat(o, s)
    \/ \E c \in EngineCallers, et \in EventTypes, rows \in EngineInstructionTables :
          StartProactive(c, et, rows)
    \/ \E t \in ProactiveTexts, l \in ToolUseLists(MaxToolUses) : ProactiveResponse(t, l)
    \/ \E o \in {"ok", "fail", "raise", "not_routed"}, s \in EngineTaskInputs :
          DispatchToolProactive(o, s)
    \/ ProactiveReturns

Spec == Init /\ [][Next]_vars

\* ------------------------------------------------------------------------
\* The first model call of chat_stream, for stored and supplied histories
\* ------------------------------------------------------------------------
\* ChatMessage rows of earlier turns
StoredRow(role) == [role |-> role, content |-> <<"earlier ", role>>, tool_calls |-> <<>>]

\* n rows of a conversation: user and assistant alternate
Alternating(n) == [i \in 1..n |-> StoredRow(IF i % 2 = 1 THEN "user" ELSE "assistant")]

\* the store when chat_stream is called: empty, short, at and over the limit
\* of the query, with and without a system row
StoredHistories ==
    {Alternating(n) : n \in {0, 2, HistoryLimit - 1, HistoryLimit, HistoryLimit + 1}}
    \cup {Append(Alternating(n), StoredRow("system")) : n \in {0, 2}}

\* the conversation_history argument: None or [], or rows
SuppliedHistories ==
    {NoHistory, Alternating(2),
     <<StoredRow("user"), StoredRow("system"), StoredRow("assistant")>>}

InitContext ==
    /\ now = 8
    /\ consent = [a \in ActionTypes |-> NoRow]
    /\ lastCheck = NoCheck
    /\ audit = <<>>
    /\ execCount = 0
    /\ lastExec = NoExec
    /\ TaskCreated
    /\ op = "none" /\ pc = "idle" /\ gateway = "none"
    /\ max_turns = 0 /\ turn_count = 0 /\ modelCalls = 0
    /\ current_text = <<>> /\ assistant_response = <<>>
    /\ pending = <<>>
    /\ tool_calls_made = <<>> /\ events = <<>>
    /\ chat_messages \in StoredHistories
    /\ retval = <<"none">>
    /\ messages = <<>> /\ tool_results_content = <<>> /\ tool_uses = <<>>
    /\ instructions = {} /\ event_type = "none" /\ caller = "none"
    /\ NoConcurrentCalls
    /\ ServicesIdle

NextContext ==
    \/ \E gw \in Gateways, mt \in 0..MaxTurns, h \in SuppliedHistories :
          StartChatStream(gw, mt, h)
    \/ EnterLoopStream
    \/ GatewayContent
    \/ \E sr \in StopReasons("iface") : GatewayDone(<<>>, sr)
    \/ GatewayError

SpecContext == InitContext /\ [][NextContext]_vars

\* ------------------------------------------------------------------------
\* proactive_check alone, for every caller and instructions table
\* ------------------------------------------------------------------------
NextProactive ==
    \/ Environment
    \/ \E c \in Callers, et \in EventTypes, rows \in InstructionTables :
          StartProactive(c, et, rows)
    \/ \E t \in ProactiveTexts, l \in ToolUseLists(MaxToolUses) : ProactiveResponse(t, l)
    \/ GatewayRaises
    \/ \E o \in {"ok", "fail", "raise", "not_routed"}, s \in EngineTaskInputs :
          DispatchToolProactive(o, s)
    \/ ProactiveReturns

SpecProactive == Init /\ [][NextProactive]_vars

\* ------------------------------------------------------------------------
\* The instructions table under its writers (the save_instruction tool and
\* DELETE /instructions/{id}) and the proactive_check calls that read it
\* ------------------------------------------------------------------------
\* AGENT_TOOLS save_instruction, trigger_type enum
TriggerTypes == {"email", "calendar", "hubspot_contact", "hubspot_note", "always"}

\* an input for the tools that take no task
NoTaskInput == TaskInput("none", "none", NoMemory)

\* execute("save_instruction", ...): _save_instruction adds an active row of
\* the user with the trigger type given, and commits
SaveInstruction(trigger_type, outcome) ==
    /\ pc = "idle"
    /\ execCount < MaxExec
    /\ Execute("save_instruction", outcome, FALSE, NoTaskInput)
    /\ instructions' = IF outcome = "ok"
                       THEN instructions \cup {Instruction("self", TRUE, trigger_type)}
                       ELSE instructions
    /\ UNCHANGED <<op, pc, gateway, max_turns, turn_count, modelCalls, current_text,
                   assistant_response, pending, tool_calls_made, events, chat_messages,
                   retval, ctxVars, event_type, caller>>

\* delete_instruction: the row with this id and the caller's user_id is
\* deleted from the table (no such row: 404)
DeleteInstruction(row) ==
    /\ pc = "idle"
    /\ row \in instructions /\ row.user = "self"
    /\ instructions' = instructions \ {row}
    /\ UNCHANGED <<op, pc, gateway, max_turns, turn_count, modelCalls, current_text,
                   assistant_response, pending, tool_calls_made, events, chat_messages,
                   retval, ctxVars, event_type, caller>>
    /\ UNCHANGED <<consentVars, execVars, concVars, svcVars>>

NextInstructions ==
    \/ \E t \in TriggerTypes, o \in {"ok", "raise"} : SaveInstruction(t, o)
    \/ \E row \in instructions : DeleteInstruction(row)
    \/ \E c \in Callers, et \in EventTypes : StartProactive(c, et, instructions)
    \/ \E t \in ProactiveTexts : ProactiveResponse(t, <<>>)
    \/ GatewayRaises
    \/ ProactiveReturns

SpecInstructions == Init /\ [][NextInstructions]_vars

\* ------------------------------------------------------------------------
\* The status of a task under its three writers: the update_task tool
\* (dispatched by the chat the job runs), PATCH /tasks/{id}/status and the
\* execute_task job
\* ------------------------------------------------------------------------
\* update_task_status (api/chat.py lines 357-389); KeyError answers 400
PatchStatusInputs == StatusSpellings \cup {"bogus"}
PatchTaskStatus(status) ==
    /\ task_status' = IF status \in StatusSpellings THEN ParseStatus(status) ELSE task_status
    /\ completed_at' = IF status \in StatusSpellings /\ ParseStatus(status) = "completed"
                       THEN now ELSE completed_at
    /\ UNCHANGED <<task_memory, foreign_task>>
    /\ UNCHANGED <<audit, execCount, lastExec>>
    /\ UNCHANGED <<consentVars, agentVars, concVars, svcVars>>

\* execute_task, lines 44-58: mark the task in progress and run the agent
ExecuteTaskBegin ==
    /\ EnterChat("execute_task")
    /\ task_status' = "in_progress"
    /\ UNCHANGED <<task_memory, completed_at, foreign_task>>
    /\ UNCHANGED <<audit, execCount, lastExec>>
    /\ UNCHANGED <<consentVars, concVars, svcVars>>

\* execute_task, lines 44-46: no such task
ExecuteTaskMissing ==
    /\ pc = "idle"
    /\ caller' = "execute_task"
    /\ retval' = <<"Task not found">>
    /\ pc' = "returned"
    /\ UNCHANGED <<op, gateway, max_turns, turn_count, modelCalls, current_text,
                   assistant_response, pending, tool_calls_made, events, chat_messages,
                   ctxVars, instructions, event_type>>
    /\ UNCHANGED <<consentVars, execVars, concVars, svcVars>>

\* execute_task, lines 60-83: completed after chat returned, failed after
\* it raised
ExecuteTaskEnd ==
    /\ caller = "execute_task" /\ op = "chat"
    /\ pc \in {"finished", "raised"}
    /\ task_status' = IF pc = "finished" THEN "completed" ELSE "failed"
    /\ completed_at' = IF pc = "finished" THEN now ELSE completed_at
    /\ task_memory' = IF pc = "finished" THEN "result" ELSE "error"
    /\ UNCHANGED foreign_task
    /\ pc' = "returned"
    /\ UNCHANGED <<op, gateway, max_turns, turn_count, modelCalls, current_text,
                   assistant_response, pending, tool_calls_made, events, chat_messages,
                   retval, ctxVars, proVars>>
    /\ UNCHANGED <<audit, execCount, lastExec>>
    /\ UNCHANGED <<consentVars, concVars, svcVars>>

\* update_task inputs that name the user's task and each status of the enum
StatusInputs == {TaskInput("own", st, NoMemory) : st \in TaskStatuses}

NextTask ==
    \/ \E s \in PatchStatusInputs : PatchTaskStatus(s)
    \/ ExecuteTaskBegin
    \/ ExecuteTaskMissing
    \/ \E t \in ResponseTexts(turn_count), l \in ToolUseLists(MaxToolUses) : ChatResponse(t, l)
    \/ GatewayRaises
    \/ \E o \in {"ok", "fail", "raise", "not_routed"}, s \in StatusInputs :
          DispatchToolChat(o, s)
    \/ ExecuteTaskEnd

SpecTask == Init /\ [][NextTask]_vars

\* ------------------------------------------------------------------------
\* The dispatch loop alone: ToolExecutor.execute called for each element of
\* one tool_uses list, with consent requests and the clock in between
\* ------------------------------------------------------------------------
ExecuteCall(outcome, auditFails, input) ==
    /\ pending # <<>>
    /\ outcome \in HandlerOutcomes(Head(pending))
    /\ Execute(Head(pending), outcome, auditFails, input)
    /\ pending' = Tail(pending)
    /\ UNCHANGED <<op, pc, gateway, max_turns, turn_count, modelCalls, current_text,
                   assistant_response, tool_calls_made, events, chat_messages, retval,
                   ctxVars, proVars>>

InitExec ==
    /\ now = 8
    /\ consent = [a \in ActionTypes |-> NoRow]
    /\ lastCheck = NoCheck
    /\ audit = <<>>
    /\ execCount = 0
    /\ lastExec = NoExec
    /\ TaskCreated
    /\ op = "none" /\ pc = "tools" /\ gateway = "none"
    /\ max_turns = 0 /\ turn_count = 0 /\ modelCalls = 0
    /\ current_text = <<>> /\ assistant_response = <<>>
    /\ pending \in ToolUseLists(MaxExec) \ {<<>>}
    /\ tool_calls_made = <<>> /\ events = <<>> /\ chat_messages = <<>>
    /\ retval = <<"none">>
    /\ messages = <<>> /\ tool_results_content = <<>> /\ tool_uses = pending
    /\ instructions = {} /\ event_type = "none" /\ caller = "none"
    /\ NoConcurrentCalls
    /\ ServicesIdle

NextExec ==
    \/ \E o \in {"ok", "fail", "raise", "not_routed"}, f \in BOOLEAN, s \in EngineTaskInputs :
          ExecuteCall(o, f, s)
    \/ \E a \in ConsultedActions, c \in ConditionChoices, e \in ExpiryChoices :
          GrantConsent(a, c, e) /\ UNCHANGED <<execVars, agentVars, concVars, svcVars>>
    \/ \E a \in ConsultedActions : RevokeConsent(a) /\ UNCHANGED <<execVars, agentVars, concVars, svcVars>>
    \/ Tick /\ UNCHANGED <<execVars, agentVars, concVars, svcVars>>

SpecExec == InitExec /\ [][NextExec]_vars

\* ------------------------------------------------------------------------
\* The writers of one task row over time: update_task calls of the dispatch
\* loop with every input, the PATCH endpoint, and the clock
\* ------------------------------------------------------------------------
\* the inputs the model gives update_task
TaskInputs ==
    {TaskInput(i, st, m) : i \in TaskIds, st \in StatusSpellings \cup {"bogus"},
                           m \in {NoMemory, "steps"}}

InitTaskRow ==
    /\ InitExec
    /\ \A i \in DOMAIN pending : pending[i] = "update_task"

NextTaskRow ==
    \/ \E o \in {"ok", "fail", "raise"}, f \in BOOLEAN, s \in TaskInputs :
          ExecuteCall(o, f, s)
    \/ \E s \in PatchStatusInputs : PatchTaskStatus(s)
    \/ Tick /\ UNCHANGED <<execVars, agentVars, concVars, svcVars>>

SpecTaskRow == InitTaskRow /\ [][NextTaskRow]_vars

\* ------------------------------------------------------------------------
\* AuditLogger._sanitize_data, applied to one input
\* ------------------------------------------------------------------------
\* line 64: the value written for a sensitive key
REDACTED == Scalar("***REDACTED***")

\* lines 54-57: the default sensitive_keys; a string is the sequence of its
\* characters
sensitive_keys ==
    {<<"p", "a", "s", "s", "w", "o", "r", "d">>,
     <<"t", "o", "k", "e", "n">>,
     <<"s", "e", "c", "r", "e", "t">>,
     <<"a", "p", "i", "_", "k", "e", "y">>,
     <<"a", "c", "c", "e", "s", "s", "_", "t", "o", "k", "e", "n">>,
     <<"r", "e", "f", "r", "e", "s", "h", "_", "t", "o", "k", "e", "n">>,
     <<"a", "u", "t", "h", "o", "r", "i", "z", "a", "t", "i", "o", "n">>,
     <<"c", "r", "e", "d", "i", "t", "_", "c", "a", "r", "d">>,
     <<"s", "s", "n">>}

UpperCase == <<"A", "B", "C", "D", "E", "F", "G", "H", "I", "J", "K", "L", "M",
               "N", "O", "P", "Q", "R", "S", "T", "U", "V", "W", "X", "Y", "Z">>
LowerCase == <<"a", "b", "c", "d", "e", "f", "g", "h", "i", "j", "k", "l", "m",
               "n", "o", "p", "q", "r", "s", "t", "u", "v", "w", "x", "y", "z">>

\* a comparison that keeps the key's letter case
KeyLower_CaseSensitive(key) == key

\* line 63: key.lower()
KeyLower(key) ==
    [i \in DOMAIN key |->
        IF \E j \in DOMAIN UpperCase : UpperCase[j] = key[i]
        THEN LowerCase[CHOOSE j \in DOMAIN UpperCase : UpperCase[j] = key[i]]
        ELSE key[i]]

\* line 63: sensitive in key.lower(), a contiguous substring
Contains(key, term) ==
    \E i \in 0..(Len(key) - Len(term)) : SubSeq(key, i + 1, i + Len(term)) = term

\* line 63: any(sensitive in key.lower() for sensitive in sensitive_keys)
IsSensitive(key) == \E term \in sensitive_keys : Contains(KeyLower(key), term)

\* lines 59-73
RECURSIVE _sanitize_data(_)
_sanitize_data(data) ==
    IF data.kind = "dict"
    THEN Dict([key \in DOMAIN data.entries |->
                  IF IsSensitive(key) THEN REDACTED
                  ELSE _sanitize_data(data.entries[key])])
    ELSE IF data.kind = "list"
    THEN List([i \in DOMAIN data.items |-> _sanitize_data(data.items[i])])
    ELSE data

\* the keys of the inputs: exact, upper-case, mixed-case and embedded
\* denylisted terms, and keys that hold none
Keys ==
    {<<"p", "a", "s", "s", "w", "o", "r", "d">>,
     <<"A", "P", "I", "_", "K", "E", "Y">>,
     <<"m", "y", "T", "o", "k", "e", "n", "s">>,
     <<"u", "s", "e", "r">>,
     <<"t", "o", "k">>}
Scalars == {Scalar("secret123"), Scalar("this is fine")}

\* dicts of two entries and lists of two items over scalars
Wide ==
    {Dict([key \in {k1, k2} |-> IF key = k1 THEN v1 ELSE v2]) :
        k1 \in Keys, k2 \in Keys, v1 \in Scalars, v2 \in Scalars}
    \cup {List(<<v1, v2>>) : v1 \in Scalars, v2 \in Scalars}

\* the inputs nested to depth n: a dict entry or a list item around the
\* inputs of depth n - 1
RECURSIVE Data(_)
Data(n) ==
    IF n = 0 THEN Scalars \cup Wide
    ELSE Scalars \cup Wide
         \cup {Dict([key \in {k} |-> v]) : k \in Keys, v \in Data(n - 1)}
         \cup {List(<<v>>) : v \in Data(n - 1)}

\* one call of _sanitize_data
Sanitize ==
    /\ san_output = NoData
    /\ san_output' = _sanitize_data(san_input)
    /\ UNCHANGED <<san_input, rl_time, rl_zset, rl_calls>>
    /\ UNCHANGED <<consentVars, execVars, agentVars, concVars>>

InitSanitize ==
    /\ now = 8
    /\ consent = [a \in ActionTypes |-> NoRow]
    /\ lastCheck = NoCheck
    /\ audit = <<>>
    /\ execCount = 0
    /\ lastExec = NoExec
    /\ TaskCreated
    /\ AgentIdle
    /\ NoConcurrentCalls
    /\ san_input \in Data(MaxDepth)
    /\ san_output = NoData
    /\ rl_time = 0
    /\ rl_zset = {}
    /\ rl_calls = <<>>

NextSanitize == Sanitize

SpecSanitize == InitSanitize /\ [][NextSanitize]_vars

\* ------------------------------------------------------------------------
\* RateLimiter.check_rate_limit for one identifier on one endpoint, with the
\* limiter enabled; the sorted set of the key holds one member per distinct
\* whole second, scored by that second
\* ------------------------------------------------------------------------
\* line 57: zremrangebyscore(key, 0, window_start)
InWindow(zset, t) == {m \in zset : m > t - window_seconds}

\* lines 50-94: one call at the current second; an exception of the Redis
\* client allows the request (lines 91-94)
check_rate_limit(redisFails) ==
    /\ Len(rl_calls) < MaxRateCalls
    /\ IF redisFails
       THEN /\ rl_calls' = Append(rl_calls,
                               [t |-> rl_time, allowed |-> TRUE, counted |-> FALSE])
            /\ UNCHANGED rl_zset
       ELSE /\ rl_zset' = InWindow(rl_zset, rl_time) \cup {rl_time}
            /\ rl_calls' = Append(rl_calls,
                  [t |-> rl_time,
                   allowed |-> ~(Cardinality(InWindow(rl_zset, rl_time)) >= max_requests),
                   counted |-> TRUE])
    /\ UNCHANGED <<rl_time, san_input, san_output>>
    /\ UNCHANGED <<consentVars, execVars, agentVars, concVars>>

\* line 50: int(time.time()) has moved to the next second
RateTick ==
    /\ rl_time < MaxRateTime
    /\ rl_time' = rl_time + 1
    /\ UNCHANGED <<rl_zset, rl_calls, san_input, san_output>>
    /\ UNCHANGED <<consentVars, execVars, agentVars, concVars>>

NextRate ==
    \/ \E f \in BOOLEAN : check_rate_limit(f)
    \/ RateTick

SpecRate == Init /\ [][NextRate]_vars

\* ------------------------------------------------------------------------
\* Concurrent check_consent calls and a revoke_consent on one row, each in
\* its own database session (API workers and Celery workers)
\* ------------------------------------------------------------------------
ConcAction == "send_email"

\* check_consent, lines 109-111: the UPDATE the commit flushes sets the two
\* changed columns to the values computed from the loaded row
CommittedRow(row, snap, t) ==
    [row EXCEPT !.last_used_at = t, !.use_count = snap.use_count + 1]

\* check_consent, lines 93-106: the query and the decisions made on its row
CheckRead(p) ==
    /\ cpc[p] = "start"
    /\ csnap' = [csnap EXCEPT ![p] = consent[ConcAction]]
    /\ IF CheckOutcome(consent[ConcAction], now) = "allowed"
       THEN /\ cpc' = [cpc EXCEPT ![p] = "read"]
            /\ UNCHANGED cres
       ELSE /\ cpc' = [cpc EXCEPT ![p] = "done"]
            /\ cres' = [cres EXCEPT ![p] = CheckOutcome(consent[ConcAction], now)]
    /\ UNCHANGED <<stale, startCount, consentVars, execVars, agentVars, svcVars>>

\* check_consent, lines 108-113: the usage update, the commit, the return
CheckCommit(p) ==
    /\ cpc[p] = "read"
    /\ consent' = [consent EXCEPT ![ConcAction] = CommittedRow(consent[ConcAction], csnap[p], now)]
    /\ cpc' = [cpc EXCEPT ![p] = "done"]
    /\ cres' = [cres EXCEPT ![p] = "allowed"]
    /\ UNCHANGED <<csnap, stale, startCount, now, lastCheck, execVars, agentVars, svcVars>>

\* revoke_consent, committed by another session
ConcurrentRevoke ==
    /\ consent[ConcAction].is_granted
    /\ consent' = [consent EXCEPT ![ConcAction] = RevokedRow(consent[ConcAction], now)]
    /\ stale' = [p \in Procs |-> stale[p] \/ cpc[p] = "read"]
    /\ UNCHANGED <<cpc, csnap, cres, startCount, now, lastCheck, execVars, agentVars, svcVars>>

\* the clock, during the concurrent calls
ConcurrentTick ==
    /\ Tick
    /\ UNCHANGED <<execVars, agentVars, concVars, svcVars>>

InitConc ==
    /\ now = 8
    /\ startCount \in 0..MaxUse
    /\ \E c \in ConditionChoices, e \in ExpiryChoices :
          consent = [a \in ActionTypes |->
                        IF a = ConcAction
                        THEN [GrantedRow(NoRow, c, e) EXCEPT !.use_count = startCount]
                        ELSE NoRow]
    /\ lastCheck = NoCheck
    /\ audit = <<>>
    /\ execCount = 0
    /\ lastExec = NoExec
    /\ TaskCreated
    /\ AgentIdle
    /\ ServicesIdle
    /\ cpc = [p \in Procs |-> "start"]
    /\ csnap = [p \in Procs |-> NoRow]
    /\ cres = [p \in Procs |-> "none"]
    /\ stale = [p \in Procs |-> FALSE]

NextConc ==
    \/ \E p \in Procs : CheckRead(p)
    \/ \E p \in Procs : CheckCommit(p)
    \/ ConcurrentRevoke
    \/ ConcurrentTick

SpecConc == InitConc /\ [][NextConc]_vars

\* ========================================================================
\* Properties
\* ========================================================================
\* a step that is one ToolExecutor.execute call
ExecuteStep == execCount' = execCount + 1

\* C1: in chat_stream, chat and proactive_check alike, the handler of a
\* sensitive tool runs only in an execute call whose check_consent allowed
\* it (the check that also counted the use); a denied call returns
\* {success: false, requires_consent: true, action_type: tool} and runs no
\* handler.
C1_HandlerOnlyWithConsent ==
    [][(ExecuteStep /\ lastExec'.tool \in sensitive_tools) =>
          LET t == lastExec'.tool IN
          IF CheckOutcome(consent[t], now) = "allowed"
          THEN /\ lastExec'.handler # "not_invoked"
               /\ lastCheck' = [action |-> t, outcome |-> "allowed"]
               /\ consent'[t].use_count = consent[t].use_count + 1
          ELSE /\ lastExec'.handler = "not_invoked"
               /\ lastExec'.result = [success |-> FALSE, requires_consent |-> TRUE,
                                      action_type |-> t, error |-> "consent_required"]
               /\ consent' = consent]_vars

C1_Witness ==
    /\ op = "proactive_check"
    /\ execCount = 2
    /\ lastExec.tool = "send_email"
    /\ lastExec.handler = "not_invoked"
    /\ lastExec.result.requires_consent
    /\ consent["send_email"].use_count = 1

\* C2: every execute call adds exactly one audit row before it returns,
\* whatever the outcome, the consent denial included (audit persistence
\* itself working).
C2_OneAuditRowPerExecute ==
    [][(ExecuteStep /\ ~lastExec'.audit_failed) => Len(audit') = Len(audit) + 1]_vars

\* the fields of a row that make a check pass at time t
RowUsable(row, t) ==
    /\ row.exists
    /\ row.is_granted
    /\ row.revoked_at = NoTime
    /\ (row.expires_at = NoTime \/ row.expires_at >= t)
    /\ (row.conditions.start = -1
        \/ (row.conditions.start <= HourOf(t) /\ HourOf(t) <= row.conditions.end))

\* C3: a check is denied whenever the row is absent, revoked or expired
\* and allowed otherwise (its conditions holding); a grant leaves a row
\* that is granted and not revoked, so the next check is allowed again; a
\* revoke leaves a row that every later check denies, the next tool call
\* of the same list included.
C3_ConsentLifecycle ==
    [][\A a \in ConsultedActions :
          /\ (ExecuteStep /\ lastExec'.tool = a) =>
                /\ (lastExec'.check = "allowed") <=> RowUsable(consent[a], now)
                /\ (lastExec'.check # "allowed") =>
                      (lastExec'.result.requires_consent /\ ~lastExec'.result.success
                       /\ lastExec'.handler = "not_invoked")
          /\ (~consent[a].is_granted /\ consent'[a].is_granted) =>
                /\ consent'[a].exists /\ consent'[a].revoked_at = NoTime
                /\ (consent'[a].expires_at = NoTime \/ consent'[a].expires_at >= now)
                      => is_valid(consent'[a], now)
          /\ (consent[a].is_granted /\ ~consent'[a].is_granted) =>
                \A t \in Times : CheckOutcome(consent'[a], t) # "allowed"]_vars

\* a first call allowed and audited as a success, then a revoke, then the
\* second call of the list denied
C3_Witness ==
    /\ execCount = 2
    /\ Len(audit) >= 1
    /\ audit[1].tool = "send_email" /\ audit[1].status = "success"
    /\ consent["send_email"].use_count = 1
    /\ consent["send_email"].revoked_at # NoTime
    /\ lastExec.tool = "send_email"
    /\ lastExec.result.requires_consent

\* C4: no check_consent call returns allowed after a revoke_consent
\* committed between its query and its return.
C4_CheckAtomicWithRevoke ==
    \A p \in Procs : (cpc[p] = "done" /\ cres[p] = "allowed") => ~stale[p]

\* a step that is one direct check_consent call
CheckStep(a) == lastCheck'.action = a

UsageUnchanged(b) ==
    /\ consent'[b].use_count = consent[b].use_count
    /\ consent'[b].last_used_at = consent[b].last_used_at

\* C5: a denied check_consent changes use_count and last_used_at of no
\* row; an allowed one adds exactly 1 to use_count of the checked row and
\* sets its last_used_at to the time of the check, other rows unchanged.
C5_UsageUpdate ==
    [][\A a \in ActionTypes : CheckStep(a) =>
          IF lastCheck'.outcome = "allowed"
          THEN /\ consent'[a].use_count = consent[a].use_count + 1
               /\ consent'[a].last_used_at = now
               /\ \A b \in ActionTypes \ {a} : UsageUnchanged(b)
          ELSE \A b \in ActionTypes : UsageUnchanged(b)]_vars

\* a denied check of a row that an earlier allowed check had used
C5_Witness ==
    /\ lastCheck.action \in ActionTypes
    /\ lastCheck.outcome \in {"no_consent", "invalid", "conditions"}
    /\ consent[lastCheck.action].use_count = 2
    /\ consent[lastCheck.action].last_used_at # NoTime
    /\ consent[lastCheck.action].last_used_at < now

\* C6: when all the concurrent check_consent calls returned allowed,
\* use_count is higher than at the start by the number of calls.
C6_NoLostIncrement ==
    (\A p \in Procs : cpc[p] = "done" /\ cres[p] = "allowed")
        => consent[ConcAction].use_count = startCount + NumCheckers

\* C7: a check is denied outside the allowed hour window, and, with
\* max_per_day = 1, once a check was already allowed on that day.
C7_ConditionsEnforced ==
    [][\A a \in ActionTypes : CheckStep(a) =>
          LET row == consent[a] IN
          /\ (row.conditions.start # -1
              /\ (HourOf(now) < row.conditions.start \/ HourOf(now) > row.conditions.end))
                => lastCheck'.outcome # "allowed"
          /\ (row.conditions.max_per_day = 1
              /\ row.last_used_at # NoTime
              /\ DayOf(row.last_used_at) = DayOf(now))
                => lastCheck'.outcome # "allowed"]_vars

\* C8: execute raises nothing to its caller and returns a result with a
\* success flag for every tool name and handler outcome; a handler
\* exception and an unknown name give success false with an error, and
\* the unknown name is audited (a failure row).
C8_ExecuteNeverRaises ==
    [][ExecuteStep =>
          /\ ~lastExec'.raised
          /\ lastExec'.result.success \in BOOLEAN
          /\ lastExec'.handler = "raise" =>
                (~lastExec'.result.success /\ lastExec'.result.error = "exception")
          /\ lastExec'.tool \notin RegisteredTools =>
                /\ ~lastExec'.result.success
                /\ lastExec'.result.error = "unknown_tool"
                /\ ~lastExec'.audit_failed =>
                      audit' = Append(audit, [action |-> "tool_execution",
                                              tool |-> lastExec'.tool,
                                              status |-> "failure"])]_vars

\* an unknown tool audited, then a handler that raised
C8_Witness ==
    /\ execCount = 2
    /\ Len(audit) = 2
    /\ audit[1].tool = "wire_money" /\ audit[1].status = "failure"
    /\ lastExec.handler = "raise"
    /\ lastExec.result.error = "exception"
    /\ ~lastExec.raised

Terminal(e) == e.type \in {"done", "error"}
TerminalCount == Cardinality({i \in DOMAIN events : Terminal(events[i])})

\* C9: a chat_stream invocation yields at most one terminal event, none
\* before it is over, and when it is over exactly one, as its last event;
\* it never ends by raising.
C9_OneTerminalEvent ==
    op = "chat_stream" =>
        /\ pc # "raised"
        /\ pc # "finished" => TerminalCount = 0
        /\ pc = "finished" =>
              /\ TerminalCount = 1
              /\ Terminal(events[Len(events)])

\* a finished stream with content, a denied tool, a failed tool and done
C9_Witness ==
    /\ op = "chat_stream" /\ pc = "finished"
    /\ Len(tool_calls_made) = 2
    /\ tool_calls_made[1].result.requires_consent
    /\ tool_calls_made[2].result.error = "exception"
    /\ events[1].type = "content"
    /\ events[Len(events)].type = "done"

\* C10: when the gateway stream reports an error, the stream of
\* chat_stream ends with an error event and carries no done event.
C10_GatewayFailureEndsWithError ==
    [][GatewayError =>
          /\ events'[Len(events')].type = "error"
          /\ \A i \in DOMAIN events' : events'[i].type # "done"]_vars

\* the step in which chat_stream leaves its loop because turn_count
\* reached max_turns after a turn that dispatched tools
MaxTurnsExhausted ==
    /\ op = "chat_stream" /\ pc = "tools" /\ pending = <<>>
    /\ max_turns >= 1 /\ turn_count = max_turns
    /\ pc' = "finished"

\* C11: with max_turns = N >= 1 and tools requested in every turn,
\* chat_stream makes exactly N model calls and then ends with a done event
\* whose message is the text generated in the last turn.
C11_ExactlyNCallsThenLastText ==
    [][MaxTurnsExhausted =>
          /\ modelCalls' = max_turns
          /\ events'[Len(events')].type = "done"
          /\ retval' = current_text]_vars

\* C12: when max_turns is exhausted without a natural stop, chat_stream
\* persists one assistant ChatMessage before the done event, holding the
\* assistant text generated so far or else the generic completion message.
C12_ExhaustionPersistsAssistantMessage ==
    [][MaxTurnsExhausted =>
          /\ Len(chat_messages') = Len(chat_messages) + 1
          /\ chat_messages'[Len(chat_messages')].role = "assistant"
          /\ chat_messages'[Len(chat_messages')].content
                \in {current_text, assistant_response, GenericCompletion}]_vars

\* the user's message is the first chat_messages row of the invocation
UserMessagePersisted(msgs) ==
    /\ msgs # <<>>
    /\ msgs[1].role = "user"
    /\ msgs[1].content = UserMessage

\* C13: chat_stream commits the user's ChatMessage before its first model
\* call: every model call starts from a state in which the row is already
\* there, and it is there in every state after a model call has started,
\* whether the call then fails or the stream is abandoned.
C13_UserMessageBeforeModelCall ==
    [][/\ (op' = "chat_stream" /\ modelCalls' > modelCalls)
            => UserMessagePersisted(chat_messages)
       /\ (op' = "chat_stream" /\ modelCalls' >= 1)
            => UserMessagePersisted(chat_messages')]_vars

\* the first model call has started and nothing has come back yet
C13_Witness ==
    /\ op = "chat_stream" /\ pc = "stream"
    /\ modelCalls = 1
    /\ events = <<>>
    /\ UserMessagePersisted(chat_messages)
    /\ Len(chat_messages) = 1

\* the tool names of a sequence of tool_result entries
ResultTools(results) == [i \in DOMAIN results |-> results[i].tool]

\* C14: in chat_stream and chat the tools of a turn are dispatched one per
\* step in the order of the model's tool_uses list: the i-th execute call
\* of the turn is for tool_uses[i] and starts after the results of the
\* calls before it were recorded; its tool_result entry, its tool_result
\* event and its audit row (when it writes one) are appended in that
\* order, and the entry list added to the message context at the end of
\* the turn names the tools in the order of tool_uses.
C14_SequentialInOrder ==
    [][/\ (ExecuteStep /\ op \in {"chat_stream", "chat"}) =>
             LET i == Len(tool_results_content) + 1 IN
             /\ execCount' = execCount + 1
             /\ i <= Len(tool_uses)
             /\ lastExec'.tool = tool_uses[i]
             /\ tool_results_content'
                   = Append(tool_results_content,
                            [tool |-> tool_uses[i], content |-> lastExec'.result])
             /\ op = "chat_stream"
                   => events' = Append(events, [type |-> "tool_result",
                                                tool_name |-> tool_uses[i]])
             /\ \/ audit' = audit
                \/ /\ Len(audit') = Len(audit) + 1
                   /\ SubSeq(audit', 1, Len(audit)) = audit
                   /\ audit'[Len(audit')].tool = tool_uses[i]
       /\ (op \in {"chat_stream", "chat"} /\ pc = "tools" /\ pc' \in {"stream", "call", "finished"})
             => /\ Len(messages') = Len(messages) + 1
                /\ ResultTools(messages'[Len(messages')].tool_results) = tool_uses
                /\ messages'[Len(messages)].tool_uses = tool_uses]_vars

\* a chat_stream turn of two different tools, both dispatched and audited
C14_Witness ==
    /\ op = "chat_stream" /\ pc = "tools" /\ pending = <<>>
    /\ tool_uses = <<"update_task", "send_email">>
    /\ ResultTools(tool_results_content) = tool_uses
    /\ Len(audit) = 2
    /\ audit[1].tool = "update_task" /\ audit[2].tool = "send_email"
    /\ events[Len(events)] = [type |-> "tool_result", tool_name |-> "send_email"]

\* the assistant rows among the persisted chat messages
AssistantRows == {i \in DOMAIN chat_messages : chat_messages[i].role = "assistant"}

\* C15: when a chat_stream invocation has ended with a done event, exactly
\* one assistant ChatMessage was persisted for it, and its tool_calls are
\* the tools dispatched during the invocation, in dispatch order.
C15_OneAssistantMessageAtDone ==
    (op = "chat_stream" /\ pc = "finished" /\ events[Len(events)].type = "done")
        => /\ Cardinality(AssistantRows) = 1
           /\ \A i \in AssistantRows : chat_messages[i].tool_calls = tool_calls_made

\* C16: chat and chat_stream take the same decision on the same model
\* response: chat_stream ends the conversation on a response exactly when
\* chat would return on it, and otherwise dispatches the same tool list.
C16_SameStateMachine ==
    [][\A l \in ToolUseLists(MaxToolUses), sr \in StopReasons("iface") :
          GatewayDone(l, sr) =>
             /\ (pc' = "finished") <=> ChatStops(l)
             /\ ~ChatStops(l) => pending' = l]_vars

\* the user has no active instruction triggered by the event type or "always"
NoMatchingInstruction ==
    ~\E i \in instructions :
        i.user = "self" /\ i.is_active = TRUE /\ (i.trigger_type = event_type \/ i.trigger_type = "always")

\* C17: when the user has no active instruction whose trigger_type is the
\* event type or "always" (inactive rows and other users' rows do not
\* count), proactive_check returns False, calls the model zero times,
\* dispatches no tool and writes no ChatMessage.
C17_NoMatchNoAction ==
    (op = "proactive_check" /\ NoMatchingInstruction)
        => /\ pc \in {"finished", "returned"}
           /\ retval = <<"False">>
           /\ modelCalls = 0
           /\ execCount = 0
           /\ chat_messages = <<>>

\* only an inactive row, another user's row and a row of another trigger
C17_Witness ==
    /\ op = "proactive_check" /\ pc = "finished"
    /\ event_type = "email"
    /\ instructions = {[user |-> "self", is_active |-> FALSE, trigger_type |-> "email"],
                       [user |-> "other", is_active |-> TRUE, trigger_type |-> "email"],
                       [user |-> "self", is_active |-> TRUE, trigger_type |-> "calendar_event"]}
    /\ retval = <<"False">>

\* the response text has the chunk "NO_ACTION" somewhere
SaysNoAction(text) == "NO_ACTION" \in {text[i] : i \in DOMAIN text}

\* a system-role ChatMessage was persisted
SystemMessagePersisted == \E i \in DOMAIN chat_messages : chat_messages[i].role = "system"

\* C18: after the model answered, proactive_check returns False, with no
\* tool dispatched and no message persisted, whenever the response text
\* contains "NO_ACTION" (whatever tool calls the response carries);
\* otherwise it dispatches the tools and returns True, and whenever it
\* returned True a tool call was executed or a summary message persisted.
C18_NoActionOrActed ==
    (op = "proactive_check" /\ modelCalls = 1 /\ pc \in {"tools", "finished", "returned"})
        => /\ SaysNoAction(current_text)
                => /\ pc # "tools"
                   /\ retval = <<"False">>
                   /\ execCount = 0
                   /\ chat_messages = <<>>
           /\ (~SaysNoAction(current_text) /\ pc # "tools")
                => /\ retval = <<"True">>
                   /\ execCount = Len(tool_uses)
           /\ retval = <<"True">> => (execCount >= 1 \/ SystemMessagePersisted)

\* NO_ACTION after other text, in a response that also carries a tool call
C18_Witness ==
    /\ op = "proactive_check" /\ pc = "finished"
    /\ current_text = <<Chunk(1), "NO_ACTION">>
    /\ tool_uses = <<"send_email">>
    /\ retval = <<"False">>

\* a proactive_action AuditRecord was written
ProactiveAuditWritten == \E i \in DOMAIN audit : audit[i].action = "proactive_action"

\* C19: whenever proactive_check returned True, for every caller (webhook
\* handlers and Celery tasks), both a system-role ChatMessage and a
\* proactive_action audit record have been produced when the caller is done.
C19_ActionLeavesMessageAndAudit ==
    (op = "proactive_check" /\ pc = "returned" /\ retval = <<"True">>)
        => /\ SystemMessagePersisted
           /\ ProactiveAuditWritten

\* the task status graph of the specification
StatusGraph ==
    {<<"pending", "in_progress">>, <<"in_progress", "waiting">>,
     <<"waiting", "in_progress">>, <<"in_progress", "completed">>,
     <<"in_progress", "failed">>, <<"waiting", "completed">>, <<"waiting", "failed">>}

\* C20: every change of a task's status, by the update_task tool, by
\* PATCH /tasks/{id}/status or by the execute_task job, follows the status
\* graph; a completed or failed task never changes status again.
C20_StatusFollowsGraph ==
    [][task_status' # task_status => <<task_status, task_status'>> \in StatusGraph]_vars

\* the step moves the task into completed
EntersCompleted == task_status # "completed" /\ task_status' = "completed"

\* C21: completed_at is set exactly on the transition into completed: a
\* call that moves the task into completed stamps it with the time of the
\* call, and no other call writes it (so it stays null until then).
C21_CompletedAtOnTransition ==
    [][/\ EntersCompleted => completed_at' = now
       /\ ~EntersCompleted => completed_at' = completed_at]_vars

\* C22: update_task with a task id that does not exist or belongs to
\* another user returns a failure result and leaves status, memory and
\* completed_at of every task unchanged.
C22_UnknownOrForeignIdRejected ==
    [][(ExecuteStep /\ lastExec'.tool = "update_task"
            /\ lastExec'.task_id \in {"foreign", "missing"})
        => /\ ~lastExec'.result.success
           /\ UNCHANGED taskVars]_vars

C22_Witness ==
    /\ lastExec.tool = "update_task" /\ lastExec.task_id = "foreign"
    /\ lastExec.handler = "fail"
    /\ ~lastExec.result.success
    /\ foreign_task.status = "pending"

\* C25: when the audit write of an execute call fails, the call raises
\* nothing and returns the result its handler produced, unchanged.
C25_AuditFailureKeepsResult ==
    [][(ExecuteStep /\ lastExec'.audit_failed)
        => /\ ~lastExec'.raised
           /\ lastExec'.handler \in {"ok", "fail", "not_routed"}
                => lastExec'.result = HandlerResult(lastExec'.tool, lastExec'.handler)]_vars

C25_Witness ==
    /\ lastExec.audit_failed
    /\ lastExec.handler = "ok"
    /\ lastExec.result.success
    /\ audit = <<>>

\* C30: an execute call adds at most one audit row; it adds exactly one
\* when the consent gate does not deny and the audit write succeeds, and
\* that row has status success iff the returned result has success true.
C30_AtMostOneRowWithResultStatus ==
    [][ExecuteStep
        => /\ Len(audit') <= Len(audit) + 1
           /\ (lastExec'.handler # "not_invoked" /\ ~lastExec'.audit_failed)
                => /\ Len(audit') = Len(audit) + 1
                   /\ (audit'[Len(audit')].status = "success") <=> lastExec'.result.success]_vars

C30_Witness ==
    /\ lastExec.handler = "raise" /\ ~lastExec.audit_failed
    /\ ~lastExec.result.success
    /\ Len(audit) = 1 /\ audit[1].status = "failure"

\* C23: no operation removes an Instruction row; an instruction is
\* retired only by setting is_active to false, so every stored instruction
\* is still stored after every step.
C23_InstructionsNeverRemoved ==
    [][\A i \in instructions :
          \E j \in instructions' : j.user = i.user /\ j.trigger_type = i.trigger_type]_vars

\* the trigger_type of the domain whose events a caller handles
CallerDomain(c) ==
    IF c = "hubspot_webhook" THEN "hubspot_contact"
    ELSE IF c = "process_calendar_event" THEN "calendar"
    ELSE "email"

\* C29: every active instruction saved through save_instruction with a
\* trigger_type of the tool's enum is loaded by the proactive_check that a
\* caller runs for an event of that domain, on every caller path.
C29_TriggerLoadedOnEveryCallerPath ==
    (op = "proactive_check" /\ pc # "idle")
        => \A i \in instructions :
              (i.user = "self" /\ i.is_active /\ i.trigger_type = CallerDomain(caller))
                  => i \in MatchingInstructions(instructions, event_type)

\* two characters are the same letter, whatever their case
SameLetter(a, b) ==
    a = b \/ \E i \in DOMAIN UpperCase : {a, b} = {UpperCase[i], LowerCase[i]}

\* the key contains a denylisted term, case-insensitively
HoldsDenylistedTerm(key) ==
    \E term \in sensitive_keys :
        \E off \in 0..(Len(key) - Len(term)) :
            \A j \in 1..Len(term) : SameLetter(key[off + j], term[j])

\* out is in with the value of every denylisted key replaced by the marker,
\* at every depth, and every other key and scalar as it was
RECURSIVE Redacts(_, _)
Redacts(in, out) ==
    IF in.kind = "dict"
    THEN /\ out.kind = "dict"
         /\ DOMAIN out.entries = DOMAIN in.entries
         /\ \A key \in DOMAIN in.entries :
               IF HoldsDenylistedTerm(key) THEN out.entries[key] = REDACTED
               ELSE Redacts(in.entries[key], out.entries[key])
    ELSE IF in.kind = "list"
    THEN /\ out.kind = "list"
         /\ Len(out.items) = Len(in.items)
         /\ \A i \in DOMAIN in.items : Redacts(in.items[i], out.items[i])
    ELSE out = in

\* C24: for every input built from nested mappings and lists,
\* _sanitize_data returns a structure in which every entry whose key
\* contains a denylisted term, case-insensitively, has the redaction marker
\* as its value at any nesting depth, and every other key and scalar value
\* is unchanged.
C24_SanitizeRedactsAtAnyDepth ==
    san_output # NoData => Redacts(san_input, san_output)

C24_Witness ==
    /\ san_input =
          Dict(<<"u", "s", "e", "r">> :>
               List(<<Dict(<<"A", "P", "I", "_", "K", "E", "Y">> :> Scalar("secret123")
                           @@ <<"t", "o", "k">> :> Scalar("this is fine"))>>))
    /\ san_output =
          Dict(<<"u", "s", "e", "r">> :>
               List(<<Dict(<<"A", "P", "I", "_", "K", "E", "Y">> :> REDACTED
                           @@ <<"t", "o", "k">> :> Scalar("this is fine"))>>))

\* the calls the limiter counted and allowed in the window that ends at t
AllowedInWindow(t) ==
    {i \in DOMAIN rl_calls :
        /\ rl_calls[i].counted /\ rl_calls[i].allowed
        /\ rl_calls[i].t > t - window_seconds /\ rl_calls[i].t <= t}

\* C26: with the limiter enabled, at most max_requests calls of one
\* identifier on one endpoint are allowed within any window of
\* window_seconds seconds, however the calls are spaced in time.
C26_AtMostMaxPerWindow ==
    \A t \in 0..MaxRateTime : Cardinality(AllowedInWindow(t)) <= max_requests

\* the entries of the context that are the new user message
NewUserMessageAt == {i \in DOMAIN messages : messages[i] = UserEntry(UserMessage)}

\* C28: the message list passed to the first model call of chat_stream
\* contains the new user message exactly once, as its last element, both
\* when the caller supplies conversation_history and when the history is
\* loaded from the store.
C28_NewUserMessageOnceAndLast ==
    (op = "chat_stream" /\ pc = "stream" /\ modelCalls = 1)
        => NewUserMessageAt = {Len(messages)}

\* a tool_result event has been yielded
ToolResultEmitted == \E i \in DOMAIN events : events[i].type = "tool_result"

\* chat_stream runs over the repository's gateway
OverClaudeService == op = "chat_stream" /\ gateway = "claude"

====
